---- MODULE Spec2Model ----
(***************************************************************************)
(* Model of the WebSocket connection registry of nexus-learn-lms:          *)
(* ConnectionManager (connect / disconnect) and the per-connection loop    *)
(* websocket_endpoint.  The repository ships two entry points that each    *)
(* define the manager and the endpoint:                                    *)
(*   "backend" : src/nexus_learn_backend/app/main.py                       *)
(*   "render"  : src/main.py                                               *)
(* They differ in disconnect (render swallows ValueError) and in the       *)
(* endpoint (render never passes a user_id).                               *)
(*                                                                         *)
(* Python dicts are TLA+ functions whose DOMAIN is the set of keys, Python *)
(* lists are sequences.                                                    *)
(***************************************************************************)
EXTENDS Integers, Sequences, FiniteSets, TLC

\* ------------------------------------------------------------------ bounds
\* Longest list kept under one client_id when connect is called directly.
MaxListLen == 2
\* Most inbound messages handled by all receive loops together.
MaxMsgs == 2
\* Most /health requests answered.
MaxChecks == 3

\* ------------------------------------------------------------- value sets
\* WebSocket objects, compared by identity: two connections, enough for
\* every pair of tasks to interleave and to share a client_id or a user_id.
WebSockets == {1, 2}
\* Values of the path parameter client_id.
ClientIds == {"a", "b"}
\* Python's None for the optional user_id (user_id: int = None).
None == -1
\* Values of the optional parameter user_id; 0 is a legal int.
UserIds == {None, 0, 1, 2}
\* The two entry points of the repository.
Deployments == {"backend", "render"}
\* Results of datetime.utcnow().isoformat().
Instants == {"2024-01-01T00:00:00", "2024-01-01T00:00:01"}
\* JSON objects a client may send.
PingMsg == [type |-> "ping"]
FooMsg == [type |-> "foo", x |-> "1"]
UntypedMsg == [x |-> "1"]
Dicts == {PingMsg, FooMsg, UntypedMsg}

VARIABLES
    deployment,          \* which main.py is running
    active_connections,  \* ConnectionManager.active_connections: client_id -> list
    user_connections,    \* ConnectionManager.user_connections: user_id -> websocket
    raised,              \* exception raised by the last direct manager call
    last_call,           \* history: the last direct manager call
    registered,          \* history: <<client_id, ws>> connected and not disconnected since
    pc,                  \* per websocket: position of its websocket_endpoint task
    client_id,           \* per websocket: the endpoint's client_id argument
    user_id,             \* per websocket: the endpoint's user_id argument
    received,            \* per websocket: objects returned by receive_json
    sent,                \* per websocket: objects passed to send_json
    delivered,           \* per websocket: number of send_json calls that returned
    task_exc,            \* per websocket: exception that ended the loop
    disconnect_calls,    \* per websocket: manager.disconnect calls made by its task
    db,                  \* the global db: "None" or "Database"
    db_class,            \* the Database class in use: "app.database" or "fallback"
    mongo_up,            \* whether the MongoDB server answers commands
    app,                 \* lifespan: "loaded", "serving" or "failed"
    health_log           \* the /health responses, each with the ping() result behind it

manager == <<active_connections, user_connections>>
history == <<raised, last_call, registered>>
tasks == <<pc, client_id, user_id, received, sent, delivered, task_exc, disconnect_calls>>
health == <<db, db_class, mongo_up, app, health_log>>
vars == <<deployment, manager, history, tasks, health>>

\* ------------------------------------------------------ Python primitives
\* Python truthiness of an optional int: None and 0 are falsy.
Truthy(u) == u # None /\ u # 0

\* d[k] = v
DictSet(d, k, v) == [x \in DOMAIN d \cup {k} |-> IF x = k THEN v ELSE d[x]]

\* del d[k]
DictDel(d, k) == [x \in DOMAIN d \ {k} |-> d[x]]

\* Sum of f[x] over the finite set S.
RECURSIVE Sum(_, _)
Sum(f, S) ==
    IF S = {} THEN 0
    ELSE LET x == CHOOSE y \in S : TRUE IN f[x] + Sum(f, S \ {x})

\* x in lst
InList(x, lst) == \E i \in 1..Len(lst) : lst[i] = x

\* Number of occurrences of x in lst.
Count(x, lst) == Cardinality({i \in 1..Len(lst) : lst[i] = x})

\* lst.remove(x) for x in lst: drops the first occurrence.
ListRemove(lst, x) ==
    LET i == CHOOSE j \in 1..Len(lst) :
                 lst[j] = x /\ \A k \in 1..(j - 1) : lst[k] # x
    IN SubSeq(lst, 1, i - 1) \o SubSeq(lst, i + 1, Len(lst))

\* ------------------------------------------------------ ConnectionManager
\* Mutant of connect: the list under cid is replaced instead of appended to.
connect_overwrites_list(ac, uc, websocket, cid, uid) ==
    [active_connections |-> DictSet(ac, cid, <<websocket>>),
     user_connections   |-> IF Truthy(uid) THEN DictSet(uc, uid, websocket)
                            ELSE uc]

\* Mutant of connect: the websocket the user had before is taken out of
\* the lists when the user registers again.
connect_evicts_previous(ac, uc, websocket, cid, uid) ==
    LET old == IF Truthy(uid) /\ uid \in DOMAIN uc THEN uc[uid] ELSE 0
        kept == [g \in DOMAIN ac |-> SelectSeq(ac[g], LAMBDA x : x # old)]
        lst == IF cid \in DOMAIN kept THEN kept[cid] ELSE << >>
    IN [active_connections |-> DictSet(kept, cid, Append(lst, websocket)),
        user_connections   |-> IF Truthy(uid) THEN DictSet(uc, uid, websocket)
                               ELSE uc]

\* ConnectionManager.connect after `await websocket.accept()` has returned.
connect(ac, uc, websocket, cid, uid) ==
    LET lst == IF cid \in DOMAIN ac THEN ac[cid] ELSE << >>
    IN [active_connections |-> DictSet(ac, cid, Append(lst, websocket)),
        user_connections   |-> IF Truthy(uid) THEN DictSet(uc, uid, websocket)
                               ELSE uc]

\* Mutant of disconnect_user: the user's entry is never deleted.
disconnect_user_keeps_entry(uc, uid) == uc

\* The user_connections part shared by both disconnect variants.
disconnect_user(uc, uid) ==
    IF Truthy(uid) /\ uid \in DOMAIN uc THEN DictDel(uc, uid) ELSE uc

\* Mutant of disconnect_remove: the emptied list is left under its key.
disconnect_remove_keeps_key(ac, websocket, cid) ==
    DictSet(ac, cid, ListRemove(ac[cid], websocket))

\* The list part of disconnect when the websocket is in the list.
disconnect_remove(ac, websocket, cid) ==
    LET rest == ListRemove(ac[cid], websocket)
    IN IF rest = << >> THEN DictDel(ac, cid) ELSE DictSet(ac, cid, rest)

\* ConnectionManager.disconnect of nexus_learn_backend/app/main.py:
\* list.remove raises ValueError when the websocket is not in the list.
disconnect_backend(ac, uc, websocket, cid, uid) ==
    IF cid \in DOMAIN ac /\ ~InList(websocket, ac[cid])
    THEN [active_connections |-> ac, user_connections |-> uc,
          raised |-> "ValueError"]
    ELSE [active_connections |->
              IF cid \in DOMAIN ac THEN disconnect_remove(ac, websocket, cid)
              ELSE ac,
          user_connections |-> disconnect_user(uc, uid),
          raised |-> "none"]

\* ConnectionManager.disconnect of src/main.py: ValueError is swallowed.
disconnect_render(ac, uc, websocket, cid, uid) ==
    [active_connections |->
         IF cid \in DOMAIN ac /\ InList(websocket, ac[cid])
         THEN disconnect_remove(ac, websocket, cid) ELSE ac,
     user_connections |-> disconnect_user(uc, uid),
     raised |-> "none"]

\* manager.disconnect of the running entry point.
disconnect(dep, ac, uc, websocket, cid, uid) ==
    IF dep = "backend" THEN disconnect_backend(ac, uc, websocket, cid, uid)
    ELSE disconnect_render(ac, uc, websocket, cid, uid)

\* ------------------------------------------------------------------ Init
NoCall == [op |-> "none", websocket |-> 0, client_id |-> "", user_id |-> None,
           was_member |-> FALSE, was_tracked |-> 0]

Init ==
    /\ deployment \in Deployments
    /\ active_connections = << >>
    /\ user_connections = << >>
    /\ raised = "none"
    /\ last_call = NoCall
    /\ registered = {}
    /\ pc = [w \in WebSockets |-> "idle"]
    /\ client_id = [w \in WebSockets |-> ""]
    /\ user_id = [w \in WebSockets |-> None]
    /\ received = [w \in WebSockets |-> << >>]
    /\ sent = [w \in WebSockets |-> << >>]
    /\ delivered = [w \in WebSockets |-> 0]
    /\ task_exc = [w \in WebSockets |-> "none"]
    /\ disconnect_calls = [w \in WebSockets |-> 0]
    /\ db = "None"
    /\ db_class = "app.database"
    /\ mongo_up = TRUE
    /\ app = "loaded"
    /\ health_log = << >>

\* The websocket uc keeps under uid before a call, 0 when there is none.
Tracked(uc, uid) == IF uid \in DOMAIN uc THEN uc[uid] ELSE 0

\* Whether ws is in the list kept under cid.
IsMember(ac, websocket, cid) == cid \in DOMAIN ac /\ InList(websocket, ac[cid])

\* ------------------------------------------- direct calls of the manager
\* await manager.connect(websocket, cid, uid), run to completion.
Register(websocket, cid, uid) ==
    /\ cid \in DOMAIN active_connections
           => Len(active_connections[cid]) < MaxListLen
    /\ LET r == connect(active_connections, user_connections, websocket, cid, uid)
       IN /\ active_connections' = r.active_connections
          /\ user_connections' = r.user_connections
    /\ raised' = "none"
    /\ last_call' = [op |-> "connect", websocket |-> websocket, client_id |-> cid,
                     user_id |-> uid,
                     was_member |-> IsMember(active_connections, websocket, cid),
                     was_tracked |-> Tracked(user_connections, uid)]
    /\ registered' = registered \cup {<<cid, websocket>>}
    /\ UNCHANGED <<deployment, health, tasks>>

\* manager.disconnect(websocket, cid, uid).
Unregister(websocket, cid, uid) ==
    /\ LET r == disconnect(deployment, active_connections, user_connections,
                           websocket, cid, uid)
       IN /\ active_connections' = r.active_connections
          /\ user_connections' = r.user_connections
          /\ raised' = r.raised
    /\ last_call' = [op |-> "disconnect", websocket |-> websocket, client_id |-> cid,
                     user_id |-> uid,
                     was_member |-> IsMember(active_connections, websocket, cid),
                     was_tracked |-> Tracked(user_connections, uid)]
    /\ registered' = registered \ {<<cid, websocket>>}
    /\ UNCHANGED <<deployment, health, tasks>>

NextManager ==
    \/ \E w \in WebSockets, c \in ClientIds, u \in UserIds : Register(w, c, u)
    \/ \E w \in WebSockets, c \in ClientIds, u \in UserIds : Unregister(w, c, u)

\* Any sequence of direct connect / disconnect calls.
SpecManager == Init /\ [][NextManager]_vars

\* ---------------------------------------------------- websocket_endpoint
\* Position of a task: "idle" (no request yet), "accepting" (inside connect,
\* awaiting websocket.accept), "receiving" (awaiting receive_json), "sending"
\* (awaiting send_json), "closed" (WebSocketDisconnect handled, endpoint
\* returned), "failed" (another exception left the endpoint).
Ended(w) == pc[w] \in {"closed", "failed"}

\* data.get("type") == "ping"
IsPing(data) == "type" \in DOMAIN data /\ data["type"] = "ping"

\* Mutant of reply: the pong carries no timestamp.
reply_without_timestamp(data, now) ==
    IF IsPing(data) THEN [type |-> "pong"]
    ELSE [type |-> "echo", data |-> data]

\* Mutant of reply: `if data.get("type"):`, any typed message gets a pong.
reply_pong_for_any_type(data, now) ==
    IF "type" \in DOMAIN data THEN [type |-> "pong", timestamp |-> now]
    ELSE [type |-> "echo", data |-> data]

\* The object the loop passes to send_json for an inbound dict.
reply(data, now) ==
    IF IsPing(data) THEN [type |-> "pong", timestamp |-> now]
    ELSE [type |-> "echo", data |-> data]

\* A client opens /ws/{cid} on websocket w; the endpoint calls
\* manager.connect, which suspends at websocket.accept().  The endpoint of
\* src/main.py takes no user_id.
Request(w, cid, uid) ==
    /\ pc[w] = "idle"
    /\ deployment = "render" => uid = None
    /\ pc' = [pc EXCEPT ![w] = "accepting"]
    /\ client_id' = [client_id EXCEPT ![w] = cid]
    /\ user_id' = [user_id EXCEPT ![w] = uid]
    /\ UNCHANGED <<deployment, health, manager, history, received, sent, delivered,
                   task_exc, disconnect_calls>>

\* websocket.accept() returns: the rest of connect runs and the loop
\* suspends at its first receive_json.
Accept(w) ==
    /\ pc[w] = "accepting"
    /\ LET r == connect(active_connections, user_connections, w,
                        client_id[w], user_id[w])
       IN /\ active_connections' = r.active_connections
          /\ user_connections' = r.user_connections
    /\ registered' = registered \cup {<<client_id[w], w>>}
    /\ pc' = [pc EXCEPT ![w] = "receiving"]
    /\ UNCHANGED <<deployment, health, raised, last_call, client_id, user_id, received,
                   sent, delivered, task_exc, disconnect_calls>>

\* receive_json returns a JSON object: the reply is built and the loop
\* suspends at send_json.
ReceiveJson(w, data, now) ==
    /\ pc[w] = "receiving"
    /\ Sum([v \in WebSockets |-> Len(received[v])], WebSockets) < MaxMsgs
    /\ received' = [received EXCEPT ![w] = Append(@, data)]
    /\ sent' = [sent EXCEPT ![w] = Append(@, reply(data, now))]
    /\ pc' = [pc EXCEPT ![w] = "sending"]
    /\ UNCHANGED <<deployment, health, manager, history, client_id, user_id, delivered,
                   task_exc, disconnect_calls>>

\* An exception other than WebSocketDisconnect leaves the loop: no except
\* clause matches and the endpoint ends without calling manager.disconnect.
Escape(w, exc) ==
    /\ pc' = [pc EXCEPT ![w] = "failed"]
    /\ task_exc' = [task_exc EXCEPT ![w] = exc]
    /\ UNCHANGED <<deployment, health, manager, history, client_id, user_id, received,
                   sent, delivered, disconnect_calls>>

\* except WebSocketDisconnect: manager.disconnect(websocket, client_id[, user_id]).
HandleDisconnect(w) ==
    /\ LET r == disconnect(deployment, active_connections, user_connections, w,
                           client_id[w], user_id[w])
       IN /\ active_connections' = r.active_connections
          /\ user_connections' = r.user_connections
          /\ pc' = [pc EXCEPT ![w] = IF r.raised = "none" THEN "closed" ELSE "failed"]
          /\ task_exc' = [task_exc EXCEPT ![w] =
                             IF r.raised = "none" THEN "WebSocketDisconnect"
                             ELSE r.raised]
    /\ registered' = registered \ {<<client_id[w], w>>}
    /\ disconnect_calls' = [disconnect_calls EXCEPT ![w] = @ + 1]
    /\ UNCHANGED <<deployment, health, raised, last_call, client_id, user_id, received,
                   sent, delivered>>

\* receive_json cannot decode the frame: json.JSONDecodeError.
ReceiveDecodeError(w) ==
    /\ pc[w] = "receiving"
    /\ Escape(w, "JSONDecodeError")

\* receive_json returns JSON that is not an object: data.get raises.
ReceiveNonObject(w) ==
    /\ pc[w] = "receiving"
    /\ Escape(w, "AttributeError")

\* receive_json raises WebSocketDisconnect: the peer closed.
ReceiveDisconnect(w) ==
    /\ pc[w] = "receiving"
    /\ HandleDisconnect(w)

\* send_json returns: back to receive_json.
SendReturn(w) ==
    /\ pc[w] = "sending"
    /\ delivered' = [delivered EXCEPT ![w] = @ + 1]
    /\ pc' = [pc EXCEPT ![w] = "receiving"]
    /\ UNCHANGED <<deployment, health, manager, history, client_id, user_id, received,
                   sent, task_exc, disconnect_calls>>

\* send_json raises WebSocketDisconnect.
SendDisconnect(w) ==
    /\ pc[w] = "sending"
    /\ HandleDisconnect(w)

\* send_json raises another error (the transport failed).
SendError(w) ==
    /\ pc[w] = "sending"
    /\ Escape(w, "RuntimeError")

Next ==
    \/ \E w \in WebSockets, c \in ClientIds, u \in UserIds : Request(w, c, u)
    \/ \E w \in WebSockets : Accept(w)
    \/ \E w \in WebSockets, d \in Dicts, t \in Instants : ReceiveJson(w, d, t)
    \/ \E w \in WebSockets : ReceiveDecodeError(w)
    \/ \E w \in WebSockets : ReceiveNonObject(w)
    \/ \E w \in WebSockets : ReceiveDisconnect(w)
    \/ \E w \in WebSockets : SendReturn(w)
    \/ \E w \in WebSockets : SendDisconnect(w)
    \/ \E w \in WebSockets : SendError(w)

\* The running server: one websocket_endpoint task per connection,
\* interleaved at their await points.
Spec == Init /\ [][Next]_vars

\* ------------------------------------------------- claims on the endpoint
\* connect has completed for w's task.
Connected(w) == pc[w] \notin {"idle", "accepting"}

\* Occurrences of w in the list kept under g (0 when g is no key).
Entries(w, g) ==
    IF g \in DOMAIN active_connections THEN Count(w, active_connections[g]) ELSE 0

\* C2: for a user id that connect stores, user_connections[u] is the
\* websocket of the latest connect, and a disconnect of an earlier websocket
\* with the same u leaves the later websocket's entry in place.
C2_UnregisterKeepsLaterConnection ==
    [][\A w \in WebSockets :
         /\ (pc[w] = "accepting" /\ pc'[w] = "receiving" /\ Truthy(user_id[w]))
              => (user_id[w] \in DOMAIN user_connections'
                  /\ user_connections'[user_id[w]] = w)
         /\ (disconnect_calls'[w] = disconnect_calls[w] + 1
             /\ user_id[w] \in DOMAIN user_connections
             /\ user_connections[user_id[w]] # w)
              => (user_id[w] \in DOMAIN user_connections'
                  /\ user_connections'[user_id[w]]
                       = user_connections[user_id[w]])]_vars

\* C4: under every interleaving of the tasks, each websocket whose connect
\* completed and whose disconnect was not called is in the list of its own
\* client_id exactly once and in no other list, every other websocket is in
\* no list, and every user_connections entry was written by a completed
\* connect with that user id.
C4_NoLostOrDuplicateRegistration ==
    /\ \A w \in WebSockets, g \in ClientIds :
           Entries(w, g) = IF Connected(w) /\ disconnect_calls[w] = 0
                              /\ g = client_id[w]
                           THEN 1 ELSE 0
    /\ \A u \in DOMAIN user_connections :
           /\ Connected(user_connections[u])
           /\ user_id[user_connections[u]] = u

\* C4 witness: two tasks registered under one client_id, the first has
\* unregistered and the second is still in the list.
C4_Witness ==
    \E w1, w2 \in WebSockets :
        /\ w1 # w2
        /\ client_id[w1] = client_id[w2]
        /\ pc[w1] = "closed"
        /\ pc[w2] \in {"receiving", "sending"}
        /\ active_connections[client_id[w2]] = <<w2>>

\* C5: a websocket whose task has ended is in no list of active_connections
\* and is no value of user_connections.
C5_EndedTaskIsUnregistered ==
    \A w \in WebSockets :
        Ended(w) =>
            /\ \A g \in ClientIds : ~IsMember(active_connections, w, g)
            /\ \A u \in DOMAIN user_connections : user_connections[u] # w

\* The lifecycle state of w's connection.
Lifecycle(p) ==
    CASE p = "idle" -> "New"
      [] p = "accepting" -> "Connecting"
      [] p \in {"receiving", "sending"} -> "Open"
      [] OTHER -> "Closed"

\* C6: a connection moves Connecting -> Open -> (Closing) -> Closed only, and
\* when it reaches Closed its task has called manager.disconnect exactly once.
C6_LifecycleUnregistersOnce ==
    [][\A w \in WebSockets :
         /\ <<Lifecycle(pc[w]), Lifecycle(pc'[w])>> \in
                {<<"New", "New">>, <<"New", "Connecting">>,
                 <<"Connecting", "Connecting">>, <<"Connecting", "Open">>,
                 <<"Open", "Open">>, <<"Open", "Closed">>,
                 <<"Closed", "Closed">>}
         /\ Lifecycle(pc'[w]) = "Closed" => disconnect_calls'[w] = 1]_vars

\* C7: the i-th object passed to send_json answers the i-th object received:
\* it is a pong exactly when that object is a ping, a pong carries a
\* timestamp, every received object has its reply, and at most one reply is
\* awaiting send_json's return.
C7_PingGetsOnePongInOrder ==
    \A w \in WebSockets :
        /\ Len(sent[w]) = Len(received[w])
        /\ \A i \in 1..Len(received[w]) :
               /\ sent[w][i].type = "pong" <=> IsPing(received[w][i])
               /\ IsPing(received[w][i]) =>
                      /\ DOMAIN sent[w][i] = {"type", "timestamp"}
                      /\ sent[w][i].timestamp \in Instants
        /\ Len(sent[w]) - delivered[w] \in {0, 1}
        /\ pc[w] = "receiving" => delivered[w] = Len(sent[w])

\* C7 witness: a ping was received after another message on the same
\* connection and both replies have been sent.
C7_Witness ==
    \E w \in WebSockets :
        /\ Len(received[w]) = 2
        /\ ~IsPing(received[w][1])
        /\ IsPing(received[w][2])
        /\ delivered[w] = 2

\* C8: an inbound object whose type is absent or not "ping" is answered by
\* {"type": "echo", "data": <that object>} and by no pong.
C8_NonPingIsEchoed ==
    \A w \in WebSockets :
        \A i \in 1..Len(received[w]) :
            ~IsPing(received[w][i]) =>
                /\ i <= Len(sent[w])
                /\ sent[w][i] = [type |-> "echo", data |-> received[w][i]]

\* C8 witness: an object with another type and an object without type have
\* both been answered on one connection.
C8_Witness ==
    \E w \in WebSockets :
        /\ received[w] = <<FooMsg, UntypedMsg>>
        /\ delivered[w] = 2

\* C9: a decode failure in receive_json does not end the loop: the
\* connection stays open and registered.
C9_DecodeFailureKeepsLoop ==
    \A w \in WebSockets :
        task_exc[w] = "JSONDecodeError" =>
            /\ ~Ended(w)
            /\ IsMember(active_connections, w, client_id[w])

\* ----------------------------------------------- claims on direct calls
\* C1: after any sequence of connect / disconnect calls no key of
\* active_connections maps to an empty list: the key is deleted together
\* with its last member.
C1_NoEmptyGroup ==
    \A g \in DOMAIN active_connections : active_connections[g] # << >>

\* C1 witness: a disconnect has just removed the last member of a group and
\* the group's key is gone.
C1_Witness ==
    /\ last_call.op = "disconnect"
    /\ last_call.was_member
    /\ raised = "none"
    /\ last_call.client_id \notin DOMAIN active_connections

\* C3: disconnect of a websocket that is not in the list of the named
\* client_id raises nothing and leaves active_connections and
\* user_connections as they were.
C3_UnregisterAbsentIsNoOp ==
    [][(last_call'.op = "disconnect" /\ ~last_call'.was_member)
         => /\ raised' = "none"
            /\ active_connections' = active_connections
            /\ user_connections' = user_connections]_vars

\* C10: a websocket is in active_connections[g] exactly when connect(g, ws)
\* has been called and disconnect(g, ws) has not been called since.
C10_MemberIffRegistered ==
    \A g \in ClientIds, w \in WebSockets :
        IsMember(active_connections, w, g) <=> <<g, w>> \in registered

\* Occurrences of websocket in the list ac keeps under cid.
EntriesIn(ac, websocket, cid) ==
    IF cid \in DOMAIN ac THEN Count(websocket, ac[cid]) ELSE 0

\* C11: connect of a websocket already in the list of cid leaves it there
\* exactly once, so one disconnect afterwards removes it from the list.
C11_RegisterIsIdempotent ==
    [][/\ \A g \in ClientIds, w \in WebSockets :
              EntriesIn(active_connections', w, g) <= 1
       /\ (last_call'.op = "disconnect" /\ last_call'.was_member)
              => ~IsMember(active_connections', last_call'.websocket,
                           last_call'.client_id)]_vars

\* C12: connect with a user_id other than None stores the websocket under
\* that user_id, for every int including 0.
C12_RegisterStoresEveryUserId ==
    [][(last_call'.op = "connect" /\ last_call'.user_id # None)
         => /\ last_call'.user_id \in DOMAIN user_connections'
            /\ user_connections'[last_call'.user_id] = last_call'.websocket]_vars

\* C13: connect(c2, g2, u) for a user u that already has a websocket c1 in
\* user_connections appends c2 to the list of g2 and sets user_connections[u]
\* to c2; every other list, every other user_connections entry and every
\* occurrence of c1 in the lists stay as they were.
C13_RegisterFrame ==
    [][\A u \in DOMAIN user_connections :
         (last_call'.op = "connect" /\ last_call'.user_id = u)
           => LET c1 == user_connections[u]
                  c2 == last_call'.websocket
                  g2 == last_call'.client_id
              IN /\ \A g \in ClientIds \ {g2} :
                        /\ g \in DOMAIN active_connections'
                             <=> g \in DOMAIN active_connections
                        /\ g \in DOMAIN active_connections
                             => active_connections'[g] = active_connections[g]
                 /\ g2 \in DOMAIN active_connections'
                 /\ active_connections'[g2] =
                        Append(IF g2 \in DOMAIN active_connections
                               THEN active_connections[g2] ELSE << >>, c2)
                 /\ \A g \in ClientIds :
                        EntriesIn(active_connections', c1, g)
                          >= EntriesIn(active_connections, c1, g)
                 /\ DOMAIN user_connections' = DOMAIN user_connections
                 /\ user_connections'[u] = c2
                 /\ \A v \in DOMAIN user_connections \ {u} :
                        user_connections'[v] = user_connections[v]]_vars

\* C13 witness: a user already tracked with c1 has just registered c2 under
\* another client_id; c1 is still in its own list and another user's entry
\* is still there.
C13_Witness ==
    /\ last_call.op = "connect"
    /\ last_call.was_tracked \in WebSockets \ {last_call.websocket}
    /\ user_connections[last_call.user_id] = last_call.websocket
    /\ \E g \in ClientIds \ {last_call.client_id} :
           IsMember(active_connections, last_call.was_tracked, g)
    /\ \E v \in DOMAIN user_connections : v # last_call.user_id

\* C15: driven through websocket_endpoint, every websocket stored in
\* user_connections is in some list of active_connections.
C15_TrackedIsRegistered ==
    \A u \in DOMAIN user_connections :
        \E g \in DOMAIN active_connections :
            InList(user_connections[u], active_connections[g])

\* C15 witness: a websocket that registered with a user id has been
\* disconnected by its task while another websocket is tracked.
C15_Witness ==
    \E w \in WebSockets :
        /\ pc[w] = "closed"
        /\ Truthy(user_id[w])
        /\ \E u \in DOMAIN user_connections : user_connections[u] # w

\* ------------------------------------------------------------ /health
\* Database.ping(): "True" when the ping command succeeds, "False" when it
\* raises; the fallback class of src/main.py always returns True.
ping(cls, up) ==
    IF cls = "fallback" THEN "True"
    ELSE IF up THEN "True" ELSE "False"

\* health_check: the database component and the overall status, given the
\* global db and what `await db.ping()` did ("True", "False" or "raises").
health_check(dep, database, pinged) ==
    LET db_status == IF database = "None" THEN "disconnected"
                     ELSE IF pinged = "raises" THEN "error"
                     ELSE "connected"
    IN [database |-> db_status,
        status   |-> IF dep = "backend"
                     THEN (IF db_status = "connected" THEN "healthy" ELSE "partial")
                     ELSE "healthy"]

\* lifespan startup: db = Database(); await db.connect().  connect raises
\* DatabaseError when the server does not answer, and the application does
\* not come up.  Only src/main.py can fall back to its own Database class.
LifespanStartup(cls) ==
    /\ app = "loaded"
    /\ deployment = "backend" => cls = "app.database"
    /\ db' = "Database"
    /\ db_class' = cls
    /\ app' = IF cls = "app.database" /\ ~mongo_up THEN "failed" ELSE "serving"
    /\ UNCHANGED <<deployment, manager, history, tasks, mongo_up, health_log>>

\* The MongoDB server goes away or comes back.
MongoChanges ==
    /\ mongo_up' = ~mongo_up
    /\ UNCHANGED <<deployment, manager, history, tasks, db, db_class, app,
                   health_log>>

\* GET /health.
HealthCheck ==
    /\ app \in {"loaded", "serving"}
    /\ Len(health_log) < MaxChecks
    /\ LET pinged == IF db = "None" THEN "not called" ELSE ping(db_class, mongo_up)
           report == health_check(deployment, db, pinged)
       IN health_log' = Append(health_log,
                               [ping |-> pinged, database |-> report.database,
                                status |-> report.status])
    /\ UNCHANGED <<deployment, manager, history, tasks, db, db_class, mongo_up,
                   app>>

NextHealth ==
    \/ \E cls \in {"app.database", "fallback"} : LifespanStartup(cls)
    \/ MongoChanges
    \/ HealthCheck

\* The application with its database and its /health route.
SpecHealth == Init /\ [][NextHealth]_vars

\* C16: a /health response reports the database "connected" (and, in
\* app/main.py, the status "healthy") only when Database.ping() returned True.
C16_ConnectedOnlyWhenPingSucceeded ==
    \A i \in 1..Len(health_log) :
        /\ health_log[i].database = "connected" => health_log[i].ping = "True"
        /\ (deployment = "backend" /\ health_log[i].status = "healthy")
               => health_log[i].ping = "True"

====
